---- MODULE Spec2Model ----
(***************************************************************************)
(* The C preprocessor working through riot-c2rust.h or riot-bindgen.h.     *)
(*                                                                         *)
(* The state is the preprocessor's macro table and its position in the     *)
(* entry header.  The two entry headers are transcribed directive by       *)
(* directive (RiotC2RustH, RiotBindgenH).  The headers they include        *)
(* (<rmutex.h>, "riot-headers.h" and what those pull in) are not part of   *)
(* the two files; they are modelled by what such headers do: include       *)
(* <stdatomic.h>, define macros of their own, contain text that is macro   *)
(* expanded, include further guarded headers, and test IS_C2RUST.          *)
(*                                                                         *)
(* A preprocessing token is a tuple of strings: an identifier or           *)
(* punctuator is the 1-tuple of its spelling, a pp-number is the tuple of  *)
(* its characters (so that its value is computed, not assumed).            *)
(***************************************************************************)
EXTENDS Integers, Sequences, FiniteSets, TLC

VARIABLES
    tool,         \* which entry header the tool was given: "c2rust" or "bindgen"
    toolchain,    \* the include guard the toolchain's <stdatomic.h> uses
    pc,           \* index of the next directive of the entry header
    env,          \* the macro table: macro name -> binding
    pre,          \* the macro table in effect before the entry header's first line
    mine,         \* macros whose current binding was made by the entry header
    inc,          \* the included file being processed ("none" between directives)
    steps,        \* number of things done inside the current inclusion
    firstDef,     \* per header: whether IS_C2RUST was defined when first processed
    via,          \* per header: the entry header's include it was first processed through
    stdatomicAt,  \* the places where the body of the real <stdatomic.h> was processed
    bypassedAt,   \* the places where an include of <stdatomic.h> was skipped by its guard
    macroFrom,    \* per header macro: the inclusion during which it was defined
    text,         \* the last source text that was macro expanded
    output,       \* its expansion
    outAt         \* the inclusion during which that expansion happened

vars == <<tool, toolchain, pc, env, pre, mine, inc, steps, firstDef, via,
          stdatomicAt, bypassedAt, macroFrom, text, output, outAt>>

\* Number of things a header tree does during one inclusion.
MaxSteps == 3

----------------------------------------------------------------------------
(* Tokens and macro bindings *)

T(s) == <<s>>

Guards == {"__CLANG_STDATOMIC_H", "_STDATOMIC_H", "_STDATOMIC_H_"}

Five == Guards \cup {"ATOMIC_VAR_INIT", "atomic_int_least16_t"}

Limits == {"UINT16_MAX", "UINT32_MAX"}

HeaderMacroNames == {"RMUTEX_INIT", "RMUTEX_OWNER_T"}

Macros == Five \cup Limits \cup {"IS_C2RUST"} \cup HeaderMacroNames

Undefined == [def |-> FALSE, fn |-> FALSE, param |-> "", body |-> <<>>]

ObjectLike(body) == [def |-> TRUE, fn |-> FALSE, param |-> "", body |-> body]

FunctionLike(param, body) == [def |-> TRUE, fn |-> TRUE, param |-> param, body |-> body]

----------------------------------------------------------------------------
(* The two entry headers, one record per directive *)

Define(l, n, body) == [line |-> l, op |-> "define", name |-> n, binding |-> ObjectLike(body)]

DefineFn(l, n, p, body) == [line |-> l, op |-> "define", name |-> n, binding |-> FunctionLike(p, body)]

Undef(l, n) == [line |-> l, op |-> "undef", name |-> n, binding |-> Undefined]

Include(l, f) == [line |-> l, op |-> "include", name |-> f, binding |-> Undefined]

RiotC2RustH_NoGuardNewlib ==
    << Define(7, "__CLANG_STDATOMIC_H", <<>>),
       Define(8, "_STDATOMIC_H", <<>>),
       DefineFn(10, "ATOMIC_VAR_INIT", "x", <<T("x")>>),
       Define(11, "atomic_int_least16_t", <<T("int_least16_t")>>),
       Include(12, "rmutex.h"),
       Undef(13, "__CLANG_STDATOMIC_H"),
       Undef(14, "_STDATOMIC_H_"),
       Undef(15, "_STDATOMIC_H"),
       Undef(16, "ATOMIC_VAR_INIT"),
       Undef(17, "atomic_int_least16_t"),
       Define(21, "IS_C2RUST", <<>>),
       Include(23, "riot-headers.h") >>

RiotC2RustH_UndefTypo ==
    << Define(7, "__CLANG_STDATOMIC_H", <<>>),
       Define(8, "_STDATOMIC_H", <<>>),
       Define(9, "_STDATOMIC_H_", <<>>),
       DefineFn(10, "ATOMIC_VAR_INIT", "x", <<T("x")>>),
       Define(11, "atomic_int_least16_t", <<T("int_least16_t")>>),
       Include(12, "rmutex.h"),
       Undef(13, "__CLANG_STDATOMIC_H"),
       Undef(14, "_STDATOMIC_H_"),
       Undef(15, "_STDATOMIC_H_"),
       Undef(16, "ATOMIC_VAR_INIT"),
       Undef(17, "atomic_int_least16_t"),
       Define(21, "IS_C2RUST", <<>>),
       Include(23, "riot-headers.h") >>

RiotC2RustH_NoUndefInit ==
    << Define(7, "__CLANG_STDATOMIC_H", <<>>),
       Define(8, "_STDATOMIC_H", <<>>),
       Define(9, "_STDATOMIC_H_", <<>>),
       DefineFn(10, "ATOMIC_VAR_INIT", "x", <<T("x")>>),
       Define(11, "atomic_int_least16_t", <<T("int_least16_t")>>),
       Include(12, "rmutex.h"),
       Undef(13, "__CLANG_STDATOMIC_H"),
       Undef(14, "_STDATOMIC_H_"),
       Undef(15, "_STDATOMIC_H"),
       Undef(17, "atomic_int_least16_t"),
       Define(21, "IS_C2RUST", <<>>),
       Include(23, "riot-headers.h") >>

RiotC2RustH_ParenInit ==
    << Define(7, "__CLANG_STDATOMIC_H", <<>>),
       Define(8, "_STDATOMIC_H", <<>>),
       Define(9, "_STDATOMIC_H_", <<>>),
       DefineFn(10, "ATOMIC_VAR_INIT", "x", <<T("("), T("x"), T(")")>>),
       Define(11, "atomic_int_least16_t", <<T("int_least16_t")>>),
       Include(12, "rmutex.h"),
       Undef(13, "__CLANG_STDATOMIC_H"),
       Undef(14, "_STDATOMIC_H_"),
       Undef(15, "_STDATOMIC_H"),
       Undef(16, "ATOMIC_VAR_INIT"),
       Undef(17, "atomic_int_least16_t"),
       Define(21, "IS_C2RUST", <<>>),
       Include(23, "riot-headers.h") >>

RiotC2RustH_MarkerLast ==
    << Define(7, "__CLANG_STDATOMIC_H", <<>>),
       Define(8, "_STDATOMIC_H", <<>>),
       Define(9, "_STDATOMIC_H_", <<>>),
       DefineFn(10, "ATOMIC_VAR_INIT", "x", <<T("x")>>),
       Define(11, "atomic_int_least16_t", <<T("int_least16_t")>>),
       Include(12, "rmutex.h"),
       Undef(13, "__CLANG_STDATOMIC_H"),
       Undef(14, "_STDATOMIC_H_"),
       Undef(15, "_STDATOMIC_H"),
       Undef(16, "ATOMIC_VAR_INIT"),
       Undef(17, "atomic_int_least16_t"),
       Include(23, "riot-headers.h"),
       Define(24, "IS_C2RUST", <<>>) >>

RiotC2RustH ==
    << Define(7, "__CLANG_STDATOMIC_H", <<>>),
       Define(8, "_STDATOMIC_H", <<>>),
       Define(9, "_STDATOMIC_H_", <<>>),
       DefineFn(10, "ATOMIC_VAR_INIT", "x", <<T("x")>>),
       Define(11, "atomic_int_least16_t", <<T("int_least16_t")>>),
       Include(12, "rmutex.h"),
       Undef(13, "__CLANG_STDATOMIC_H"),
       Undef(14, "_STDATOMIC_H_"),
       Undef(15, "_STDATOMIC_H"),
       Undef(16, "ATOMIC_VAR_INIT"),
       Undef(17, "atomic_int_least16_t"),
       Define(21, "IS_C2RUST", <<>>),
       Include(23, "riot-headers.h") >>

RiotBindgenH_ShortLimit ==
    << Define(3, "UINT16_MAX", << <<"0", "x", "f", "f", "f", "f">> >>),
       Define(4, "UINT32_MAX", << <<"0", "x", "f", "f", "f", "f", "f", "f", "f">> >>),
       Include(6, "riot-headers.h") >>

RiotBindgenH_Marker ==
    << Define(3, "UINT16_MAX", << <<"0", "x", "f", "f", "f", "f">> >>),
       Define(4, "UINT32_MAX", << <<"0", "x", "f", "f", "f", "f", "f", "f", "f", "f">> >>),
       Define(5, "IS_C2RUST", <<>>),
       Include(6, "riot-headers.h") >>

RiotBindgenH ==
    << Define(3, "UINT16_MAX", << <<"0", "x", "f", "f", "f", "f">> >>),
       Define(4, "UINT32_MAX", << <<"0", "x", "f", "f", "f", "f", "f", "f", "f", "f">> >>),
       Include(6, "riot-headers.h") >>

Program == IF tool = "c2rust" THEN RiotC2RustH ELSE RiotBindgenH

Directive == Program[pc]

\* The entry header is between two of its directives, the next one being at line l.
AtLine(l) == inc = "none" /\ pc <= Len(Program) /\ Directive.line = l

\* The directive at line l is the one that was processed last.
JustAfter(l) == inc = "none" /\ pc > 1 /\ Program[pc - 1].line = l

\* The file included at line l is being processed.
Inside(l) == inc # "none" /\ Directive.line = l

----------------------------------------------------------------------------
(* Macro expansion (C11 6.10.3): an object-like macro is replaced by its    *)
(* body; a function-like macro only when followed by a parenthesised       *)
(* argument, which is expanded and then substituted for the parameter; the *)
(* result is rescanned with the macro's own name not expanded again.       *)
(* No body here ends in the name of a function-like macro, so rescanning   *)
(* a replacement never needs the tokens that follow it.  A #define of a    *)
(* name already defined differently is diagnosed by the compilers and the  *)
(* new binding takes effect.                                               *)

IsDefined(e, t) == Len(t) = 1 /\ t[1] \in DOMAIN e /\ e[t[1]].def

RECURSIVE MatchClose(_, _, _)
MatchClose(s, i, depth) ==
    IF i > Len(s) THEN 0
    ELSE IF s[i] = T("(") THEN MatchClose(s, i + 1, depth + 1)
    ELSE IF s[i] = T(")")
         THEN IF depth = 1 THEN i ELSE MatchClose(s, i + 1, depth - 1)
    ELSE MatchClose(s, i + 1, depth)

RECURSIVE Subst(_, _, _)
Subst(body, param, arg) ==
    IF body = <<>> THEN <<>>
    ELSE IF Head(body) = T(param) THEN arg \o Subst(Tail(body), param, arg)
    ELSE <<Head(body)>> \o Subst(Tail(body), param, arg)

RECURSIVE ExpandHiding(_, _, _)
ExpandHiding(e, toks, hide) ==
    IF toks = <<>> THEN <<>>
    ELSE LET t == Head(toks)
             rest == Tail(toks)
         IN  IF ~IsDefined(e, t) \/ t[1] \in hide
             THEN <<t>> \o ExpandHiding(e, rest, hide)
             ELSE IF ~e[t[1]].fn
             THEN ExpandHiding(e, e[t[1]].body, hide \cup {t[1]}) \o ExpandHiding(e, rest, hide)
             ELSE LET close == IF rest # <<>> /\ Head(rest) = T("(")
                               THEN MatchClose(rest, 1, 0) ELSE 0
                  IN  IF close = 0
                      THEN <<t>> \o ExpandHiding(e, rest, hide)
                      ELSE LET arg == ExpandHiding(e, SubSeq(rest, 2, close - 1), hide)
                               after == SubSeq(rest, close + 1, Len(rest))
                           IN  ExpandHiding(e, Subst(e[t[1]].body, e[t[1]].param, arg),
                                            hide \cup {t[1]})
                               \o ExpandHiding(e, after, hide)

Expand(e, toks) == ExpandHiding(e, toks, {})

----------------------------------------------------------------------------
(* The value of an integer constant (C11 6.4.4.1), as its decimal digits,  *)
(* least significant first: 2^32 - 1 exceeds a 32-bit signed integer.      *)

HexDigit(c) ==
    CASE c = "0" -> 0 [] c = "1" -> 1 [] c = "2" -> 2 [] c = "3" -> 3
      [] c = "4" -> 4 [] c = "5" -> 5 [] c = "6" -> 6 [] c = "7" -> 7
      [] c = "8" -> 8 [] c = "9" -> 9 [] c = "a" -> 10 [] c = "b" -> 11
      [] c = "c" -> 12 [] c = "d" -> 13 [] c = "e" -> 14 [] c = "f" -> 15

RECURSIVE MulAdd(_, _, _)
MulAdd(d, m, c) ==
    IF d = <<>>
    THEN IF c = 0 THEN <<>> ELSE <<c % 10>> \o MulAdd(<<>>, m, c \div 10)
    ELSE LET v == Head(d) * m + c
         IN  <<v % 10>> \o MulAdd(Tail(d), m, v \div 10)

RECURSIVE Digits(_, _, _)
Digits(chars, base, acc) ==
    IF chars = <<>> THEN acc
    ELSE Digits(Tail(chars), base, MulAdd(acc, base, HexDigit(Head(chars))))

IntegerConstant(tok) ==
    IF Len(tok) > 2 /\ tok[1] = "0" /\ tok[2] = "x"
    THEN Digits(SubSeq(tok, 3, Len(tok)), 16, <<>>)
    ELSE Digits(tok, 10, <<>>)

RECURSIVE Reverse(_)
Reverse(s) == IF s = <<>> THEN <<>> ELSE Reverse(Tail(s)) \o <<Head(s)>>

\* What the macro named n evaluates to, most significant decimal digit first.
MacroValue(e, n) ==
    LET out == Expand(e, <<T(n)>>)
    IN  IF Len(out) = 1 THEN Reverse(IntegerConstant(out[1])) ELSE <<>>

RECURSIVE Pow2(_)
Pow2(w) == IF w = 0 THEN <<1>> ELSE MulAdd(Pow2(w - 1), 2, 0)

\* 2^w - 1 for w >= 1 (2^w then ends in 2, 4, 6 or 8: no borrow).
MaxUnsigned(w) == Reverse([Pow2(w) EXCEPT ![1] = @ - 1])

----------------------------------------------------------------------------
(* What the included header trees do *)

Headers == {"rmutex.h", "mutex.h", "riot-headers.h", "host/ble_gap.h"}

\* The guarded headers a header tree pulls in.
Nested(f) ==
    IF f = "rmutex.h" THEN {"mutex.h"}
    ELSE {"rmutex.h", "mutex.h", "host/ble_gap.h"}

\* #define ATOMIC_VAR_INIT(value) (value), as the real <stdatomic.h> has it.
RealAtomicVarInit == FunctionLike("value", <<T("("), T("value"), T(")")>>)

\* Macros that rmutex.h defines, or could define, with the atomic names in the body.
HeaderMacroBody(n) ==
    IF n = "RMUTEX_INIT"
    THEN <<T("{"), T("MUTEX_INIT"), T(","), T("0"), T(","),
           T("ATOMIC_VAR_INIT"), T("("), T("KERNEL_PID_UNDEF"), T(")"), T("}")>>
    ELSE <<T("atomic_int_least16_t")>>

Args == { <<T("0")>>,
          <<T("KERNEL_PID_UNDEF")>>,
          <<T("("), T("atomic_int_least16_t"), T(")"), T("0")>> }

Invocation(e) == <<T("ATOMIC_VAR_INIT"), T("(")>> \o e \o <<T(")")>>

Texts ==
    { <<T("atomic_int_least16_t"), T("owner"), T(";")>>,
      <<T("RMUTEX_OWNER_T"), T("owner"), T(";")>>,
      <<T("RMUTEX_INIT")>> }
    \cup { Invocation(e) : e \in Args }

AtomicNames == {T("atomic_int_least16_t"), T("ATOMIC_VAR_INIT")}

MentionsAtomics(toks) == \E i \in 1..Len(toks) : toks[i] \in AtomicNames

----------------------------------------------------------------------------
(* The macro table the entry header starts from *)

Prior == {"stdatomic", "stdint", "marker", "shim"}

\* tc: the toolchain's stdatomic guard; had: what was seen before the entry header
\*   "stdatomic": the real <stdatomic.h> was already included
\*   "stdint":    <stdint.h> was already included
\*   "marker":    -DIS_C2RUST on the command line
\*   "shim":      the five workaround macros were already defined by someone else
PreEnv(tc, had) ==
    [m \in Macros |->
        IF m \in Guards /\ "shim" \in had THEN ObjectLike(<<T("1")>>)
        ELSE IF m = tc /\ "stdatomic" \in had THEN ObjectLike(<<>>)
        ELSE IF m = "ATOMIC_VAR_INIT" /\ "stdatomic" \in had THEN RealAtomicVarInit
        ELSE IF m = "ATOMIC_VAR_INIT" /\ "shim" \in had THEN FunctionLike("x", <<T("x")>>)
        ELSE IF m = "atomic_int_least16_t" /\ "shim" \in had THEN ObjectLike(<<T("int16_t")>>)
        ELSE IF m = "IS_C2RUST" /\ "marker" \in had THEN ObjectLike(<<T("1")>>)
        ELSE IF m = "UINT16_MAX" /\ "stdint" \in had
             THEN ObjectLike(<< <<"6", "5", "5", "3", "5">> >>)
        ELSE IF m = "UINT32_MAX" /\ "stdint" \in had
             THEN ObjectLike(<< <<"4", "2", "9", "4", "9", "6", "7", "2", "9", "5">> >>)
        ELSE Undefined]

Init ==
    /\ tool \in {"c2rust", "bindgen"}
    /\ toolchain \in Guards
    /\ \E had \in SUBSET Prior :
          /\ env = PreEnv(toolchain, had)
          /\ stdatomicAt = IF "stdatomic" \in had THEN {"before"} ELSE {}
    /\ bypassedAt = {}
    /\ pre = env
    /\ pc = 1
    /\ mine = {}
    /\ inc = "none"
    /\ steps = 0
    /\ firstDef = [h \in Headers |-> "unseen"]
    /\ via = [h \in Headers |-> "none"]
    /\ macroFrom = [n \in HeaderMacroNames |-> "none"]
    /\ text = <<>>
    /\ output = <<>>
    /\ outAt = "none"

----------------------------------------------------------------------------
(* The directives of the entry header *)

\* #define: the new binding replaces any earlier one.
DoDefine ==
    /\ inc = "none" /\ pc <= Len(Program) /\ Directive.op = "define"
    /\ env' = [env EXCEPT ![Directive.name] = Directive.binding]
    /\ mine' = mine \cup {Directive.name}
    /\ pc' = pc + 1
    /\ UNCHANGED <<tool, toolchain, pre, inc, steps, firstDef, via, stdatomicAt, bypassedAt,
                   macroFrom, text, output, outAt>>

\* #undef: the name is undefined afterwards, whatever it was before.
DoUndef ==
    /\ inc = "none" /\ pc <= Len(Program) /\ Directive.op = "undef"
    /\ env' = [env EXCEPT ![Directive.name] = Undefined]
    /\ mine' = mine \ {Directive.name}
    /\ pc' = pc + 1
    /\ UNCHANGED <<tool, toolchain, pre, inc, steps, firstDef, via, stdatomicAt, bypassedAt,
                   macroFrom, text, output, outAt>>

\* The marker test a header makes when its contents are processed.
MarkerSeen == IF env["IS_C2RUST"].def THEN "defined" ELSE "undefined"

\* #include: the named file's contents start being processed.
EnterInclude ==
    /\ inc = "none" /\ pc <= Len(Program) /\ Directive.op = "include"
    /\ inc' = Directive.name
    /\ steps' = 0
    /\ firstDef' = [firstDef EXCEPT ![Directive.name] =
                       IF @ = "unseen" THEN MarkerSeen ELSE @]
    /\ via' = [via EXCEPT ![Directive.name] =
                  IF firstDef[Directive.name] = "unseen" THEN Directive.name ELSE @]
    /\ UNCHANGED <<tool, toolchain, pc, env, pre, mine, stdatomicAt, bypassedAt, macroFrom,
                   text, output, outAt>>

\* The end of the included file: on to the directive after the #include.
LeaveInclude ==
    /\ inc # "none"
    /\ inc' = "none"
    /\ steps' = 0
    /\ pc' = pc + 1
    /\ UNCHANGED <<tool, toolchain, env, pre, mine, firstDef, via, stdatomicAt, bypassedAt,
                   macroFrom, text, output, outAt>>

----------------------------------------------------------------------------
(* Inside an inclusion *)

\* A header includes <stdatomic.h>: skipped when the toolchain's guard is
\* defined, else the guard, ATOMIC_VAR_INIT and the atomic types are defined.
HeaderIncludesStdatomic ==
    /\ inc # "none" /\ steps < MaxSteps
    /\ steps' = steps + 1
    /\ IF env[toolchain].def
       THEN /\ bypassedAt' = bypassedAt \cup {inc}
            /\ UNCHANGED <<env, mine, stdatomicAt>>
       ELSE /\ env' = [env EXCEPT ![toolchain] = ObjectLike(<<>>),
                                  !["ATOMIC_VAR_INIT"] = RealAtomicVarInit]
            /\ mine' = mine \ {toolchain, "ATOMIC_VAR_INIT"}
            /\ stdatomicAt' = stdatomicAt \cup {inc}
            /\ UNCHANGED bypassedAt
    /\ UNCHANGED <<tool, toolchain, pc, pre, inc, firstDef, via, macroFrom,
                   text, output, outAt>>

\* A header defines a macro of its own; the body is stored unexpanded.
HeaderDefinesMacro(n) ==
    /\ inc # "none" /\ steps < MaxSteps
    /\ ~env[n].def
    /\ steps' = steps + 1
    /\ env' = [env EXCEPT ![n] = ObjectLike(HeaderMacroBody(n))]
    /\ macroFrom' = [macroFrom EXCEPT ![n] = inc]
    /\ UNCHANGED <<tool, toolchain, pc, pre, mine, inc, firstDef, via,
                   stdatomicAt, bypassedAt, text, output, outAt>>

\* A header holds text outside directives: it is macro expanded.
HeaderText(t) ==
    /\ inc # "none" /\ steps < MaxSteps
    /\ steps' = steps + 1
    /\ text' = t
    /\ output' = Expand(env, t)
    /\ outAt' = inc
    /\ UNCHANGED <<tool, toolchain, pc, env, pre, mine, inc, firstDef, via,
                   stdatomicAt, bypassedAt, macroFrom>>

\* A header includes a guarded header that was not processed before.
HeaderFirstProcessed(h) ==
    /\ inc # "none" /\ steps < MaxSteps
    /\ h \in Nested(inc)
    /\ firstDef[h] = "unseen"
    /\ steps' = steps + 1
    /\ firstDef' = [firstDef EXCEPT ![h] = MarkerSeen]
    /\ via' = [via EXCEPT ![h] = inc]
    /\ UNCHANGED <<tool, toolchain, pc, env, pre, mine, inc, stdatomicAt, bypassedAt,
                   macroFrom, text, output, outAt>>

Next ==
    \/ DoDefine
    \/ DoUndef
    \/ EnterInclude
    \/ LeaveInclude
    \/ HeaderIncludesStdatomic
    \/ \E n \in HeaderMacroNames : HeaderDefinesMacro(n)
    \/ \E t \in Texts : HeaderText(t)
    \/ \E h \in Headers : HeaderFirstProcessed(h)

Spec == Init /\ [][Next]_vars

----------------------------------------------------------------------------
(* Properties *)

NonePredefined == \A m \in Five : ~pre[m].def

\* The names the entry header's directives of kind op name between lines lo and hi.
NamesOf(op, lo, hi) ==
    { Program[i].name : i \in { j \in 1..Len(Program) :
                                  /\ Program[j].op = op
                                  /\ lo <= Program[j].line
                                  /\ Program[j].line <= hi } }

\* C1 as stated: whatever the macro table was before line 7 of riot-c2rust.h,
\* each of the five macros has after line 17 the binding it had before line 7.
C1_RestoredForEveryEnvironment ==
    (tool = "c2rust" /\ JustAfter(17)) => \A m \in Five : env[m] = pre[m]

\* C1 as amended: after line 17 each of the five macros is undefined, whatever
\* it was before line 7; so each macro that was undefined before is restored.
C1_UndefinedAfterBracket ==
    (tool = "c2rust" /\ JustAfter(17)) =>
        \A m \in Five : ~env[m].def /\ (~pre[m].def => env[m] = pre[m])

C1_Witness ==
    /\ tool = "c2rust" /\ JustAfter(17)
    /\ NonePredefined
    /\ outAt = "rmutex.h"
    /\ \A m \in Five : env[m] = pre[m]

\* C2: while <rmutex.h> (line 12) is processed all three guards are defined and
\* the real stdatomic.h contributes nothing there; every other include is
\* processed with no guard that this file defined still in effect.
C2_BypassedForOneInclusion ==
    /\ (tool = "c2rust" /\ Inside(12)) => \A g \in Guards : env[g].def
    /\ "rmutex.h" \notin stdatomicAt
    /\ (inc # "none" /\ ~(tool = "c2rust" /\ Inside(12))) => mine \cap Guards = {}

C2_Witness ==
    /\ tool = "c2rust" /\ Inside(23)
    /\ NonePredefined
    /\ "rmutex.h" \in bypassedAt
    /\ "riot-headers.h" \in stdatomicAt

\* C3: IS_C2RUST is defined at every point while riot-headers.h is processed
\* through riot-c2rust.h, which never undefines it; riot-bindgen.h never
\* defines it, so through riot-bindgen.h it stays undefined if it was before.
C3_MarkerOnTranslatorPath ==
    /\ (tool = "c2rust" /\ Inside(23)) => env["IS_C2RUST"].def
    /\ (tool = "bindgen" /\ inc = "riot-headers.h" /\ ~pre["IS_C2RUST"].def)
          => ~env["IS_C2RUST"].def
    /\ "IS_C2RUST" \in NamesOf("define", 1, 23) <=> tool = "c2rust"
    /\ "IS_C2RUST" \notin NamesOf("undef", 1, 23)

C3_Witness ==
    /\ tool = "c2rust" /\ Inside(23)
    /\ ~pre["IS_C2RUST"].def
    /\ firstDef["host/ble_gap.h"] = "defined"

\* C4: when the include at line 6 of riot-bindgen.h starts, UINT16_MAX and
\* UINT32_MAX are defined and evaluate to 65535 = 2^16 - 1 and
\* 4294967295 = 2^32 - 1.
C4_LimitsPreSeeded ==
    (tool = "bindgen" /\ AtLine(6)) =>
        /\ env["UINT16_MAX"].def /\ env["UINT32_MAX"].def
        /\ MacroValue(env, "UINT16_MAX") = <<6, 5, 5, 3, 5>>
        /\ MacroValue(env, "UINT16_MAX") = MaxUnsigned(16)
        /\ MacroValue(env, "UINT32_MAX") = <<4, 2, 9, 4, 9, 6, 7, 2, 9, 5>>
        /\ MacroValue(env, "UINT32_MAX") = MaxUnsigned(32)

C4_Witness ==
    /\ tool = "bindgen" /\ AtLine(6)
    /\ ~pre["UINT16_MAX"].def /\ ~pre["UINT32_MAX"].def
    /\ env["UINT32_MAX"].body = << <<"0", "x", "f", "f", "f", "f", "f", "f", "f", "f">> >>

\* C5: while <rmutex.h> is processed through riot-c2rust.h, atomic_int_least16_t
\* expands to int_least16_t and ATOMIC_VAR_INIT(e) to what e alone expands to
\* (e itself when e names no macro), so nothing expanded there keeps an atomic name.
C5_AtomicsMasked ==
    /\ (tool = "c2rust" /\ Inside(12)) =>
          /\ Expand(env, <<T("atomic_int_least16_t")>>) = <<T("int_least16_t")>>
          /\ \A e \in Args :
                /\ Expand(env, Invocation(e)) = Expand(env, e)
                /\ ~MentionsAtomics(e) => Expand(env, Invocation(e)) = e
    /\ (tool = "c2rust" /\ outAt = "rmutex.h") => ~MentionsAtomics(output)

C5_Witness ==
    /\ tool = "c2rust" /\ Inside(12)
    /\ macroFrom["RMUTEX_INIT"] = "rmutex.h"
    /\ text = <<T("RMUTEX_INIT")>>
    /\ output = <<T("{"), T("MUTEX_INIT"), T(","), T("0"), T(","),
                  T("KERNEL_PID_UNDEF"), T("}")>>

\* C6 as stated: every header processed through either include of riot-c2rust.h
\* finds IS_C2RUST defined when its contents are first processed.
C6_MarkerSeenByEveryHeader ==
    tool = "c2rust" => \A h \in Headers : firstDef[h] # "undefined"

\* C6 as amended: every header first processed through the include of
\* riot-headers.h (line 23) finds IS_C2RUST defined; a header first processed
\* through <rmutex.h> (line 12) finds it defined only if it was defined before
\* riot-c2rust.h started.
C6_MarkerSeenInMainTree ==
    tool = "c2rust" =>
        \A h \in Headers :
            /\ via[h] = "riot-headers.h" => firstDef[h] = "defined"
            /\ via[h] = "rmutex.h" =>
                  firstDef[h] = IF pre["IS_C2RUST"].def THEN "defined" ELSE "undefined"

C6_Witness ==
    /\ tool = "c2rust"
    /\ ~pre["IS_C2RUST"].def
    /\ via["mutex.h"] = "rmutex.h" /\ firstDef["mutex.h"] = "undefined"
    /\ via["host/ble_gap.h"] = "riot-headers.h" /\ firstDef["host/ble_gap.h"] = "defined"

\* C7: starting with none of the five macros defined, the macros defined by
\* lines 7-11 are those undefined by lines 13-17, and when the include at line 23
\* starts IS_C2RUST is the only macro riot-c2rust.h has left defined.
C7_NothingLeaks ==
    (tool = "c2rust" /\ NonePredefined) =>
        /\ NamesOf("define", 7, 11) = NamesOf("undef", 13, 17)
        /\ AtLine(23) =>
              /\ mine = {"IS_C2RUST"}
              /\ \A m \in Five : ~env[m].def
              /\ env["IS_C2RUST"].def

C7_Witness ==
    /\ tool = "c2rust" /\ AtLine(23)
    /\ NonePredefined
    /\ "rmutex.h" \in bypassedAt
    /\ mine = {"IS_C2RUST"}

\* The bindings lines 10 and 11 of riot-c2rust.h give the two atomic names.
Substituted ==
    [env EXCEPT !["ATOMIC_VAR_INIT"] = RiotC2RustH[4].binding,
                !["atomic_int_least16_t"] = RiotC2RustH[5].binding]

\* C8: a macro defined inside rmutex.h with an atomic name in its body and used
\* after line 17 is expanded with that name left alone or bound by a later real
\* stdatomic.h, never with the meaning riot-c2rust.h substituted.
C8_BodiesExpandAtUse ==
    (tool = "c2rust" /\ outAt = "riot-headers.h") =>
        /\ (text = <<T("RMUTEX_INIT")>> /\ macroFrom["RMUTEX_INIT"] = "rmutex.h") =>
              /\ output \in { HeaderMacroBody("RMUTEX_INIT"),
                              <<T("{"), T("MUTEX_INIT"), T(","), T("0"), T(","),
                                T("("), T("KERNEL_PID_UNDEF"), T(")"), T("}")>> }
              /\ output # Expand(Substituted, text)
        /\ (text[1] = T("RMUTEX_OWNER_T") /\ macroFrom["RMUTEX_OWNER_T"] = "rmutex.h") =>
              /\ output = <<T("atomic_int_least16_t"), T("owner"), T(";")>>
              /\ output # Expand(Substituted, text)

C8_Witness ==
    /\ tool = "c2rust" /\ outAt = "riot-headers.h"
    /\ macroFrom["RMUTEX_INIT"] = "rmutex.h"
    /\ text = <<T("RMUTEX_INIT")>>
    /\ output = <<T("{"), T("MUTEX_INIT"), T(","), T("0"), T(","),
                  T("("), T("KERNEL_PID_UNDEF"), T(")"), T("}")>>

\* C9: no directive of riot-bindgen.h changes a macro other than UINT16_MAX and
\* UINT32_MAX, none of riot-c2rust.h changes those two, and in each header the
\* include of riot-headers.h is the last directive.
C9_DisjointWorkarounds ==
    /\ [][ (inc = "none" /\ inc' = "none" /\ pc' # pc) =>
              \A m \in Macros :
                 ((tool = "bindgen") # (m \in Limits)) => env'[m] = env[m] ]_vars
    /\ [](/\ Program[Len(Program)].op = "include"
          /\ Program[Len(Program)].name = "riot-headers.h"
          /\ \A i \in 1..(Len(Program) - 1) : Program[i].name # "riot-headers.h")

C9_Witness ==
    /\ tool = "bindgen" /\ AtLine(6)
    /\ pre["IS_C2RUST"].def /\ env["IS_C2RUST"] = pre["IS_C2RUST"]
    /\ pre["UINT16_MAX"].def /\ env["UINT16_MAX"] # pre["UINT16_MAX"]

====
